---- MODULE Spec2Model ----
(***************************************************************************)
(* A state-machine model of src/script.js: the event handlers a portfolio  *)
(* page registers at load time.  The state is the part of the DOM, of the  *)
(* window and of localStorage that the handlers read or write; there is    *)
(* one action per event handler (all listeners of one event together, in   *)
(* registration order), and one for a page reload.                         *)
(* Variables marked history record what a handler did or saw, for the      *)
(* properties; no handler reads them.  The DOMContentLoaded listener       *)
(* (loading="lazy" on images) touches nothing another handler reads and is *)
(* left out, as is console.warn.                                           *)
(*                                                                         *)
(* Three specifications cover the script, one per group of features that   *)
(* share state:                                                            *)
(*   Spec      theme toggle, project modal, keydown, reload                *)
(*   SpecNav   nav toggle, nav links, scroll / load, back-to-top           *)
(*   SpecForm  contact form                                                *)
(***************************************************************************)
EXTENDS Integers, Sequences, FiniteSets, TLC

VARIABLES
    \* ---- the document the script is loaded into (fixed after Init)
    present,        \* the expected elements that exist in the document
    links,          \* href of each 'nav ul li a', in document order
    sections,       \* [id, top, height] of each 'section[id]', in document order
    initActive,     \* the nav links the markup itself marks 'active'
    \* ---- theme
    stored,         \* localStorage['portfolio-theme'], NoValue when absent
    darkTheme,      \* root.classList.contains('dark-theme')
    ariaPressed,    \* #theme-toggle's aria-pressed attribute
    storedByScript, \* history: the script has written the stored value
    themeLog,       \* history: <<stored, darkTheme>> before each of the last two toggle clicks
    \* ---- project modal
    modalOpen,      \* modal.classList.contains('open')
    bodyOverflow,   \* document.body.style.overflow
    modalTitleText, modalBodyText, modalImgSrc, modalImgAlt,
    \* ---- navigation and scrolling
    navOpen,        \* navUL.classList.contains('open')
    ariaExpanded,   \* #nav-toggle's aria-expanded attribute
    active,         \* indices of the nav links carrying class 'active'
    scrollY,        \* window.scrollY
    scrollPending,  \* the scroll position changed and its scroll event is not yet delivered
    loaded,         \* the window's load event has been delivered
    backTopVisible, \* backTop.classList.contains('visible')
    urlHash,        \* the URL's fragment
    defaultKept,    \* the last link click kept the browser's default action
    \* ---- contact form
    nameVal, emailVal, messageVal,  \* the inputs' values
    fbText, fbClasses,              \* #form-feedback's textContent and classes
    alerts,         \* the alert() calls of the last submit handler run
    formReset,      \* history: the last submit handler run called contactForm.reset()
    submitted,      \* history: whether the last event was a submit, and the inputs' values then
    \* ---- all handlers
    thrown          \* an exception has escaped a handler since the page was loaded

docVars   == <<present, links, sections, initActive>>
themeVars == <<stored, darkTheme, ariaPressed, storedByScript, themeLog>>
modalVars == <<modalOpen, bodyOverflow, modalTitleText, modalBodyText, modalImgSrc,
               modalImgAlt>>
navVars   == <<navOpen, ariaExpanded, active, scrollY, scrollPending, loaded,
               backTopVisible, urlHash, defaultKept>>
formVars  == <<nameVal, emailVal, messageVal, fbText, fbClasses, alerts, formReset,
               submitted>>
vars      == <<docVars, themeVars, modalVars, navVars, formVars, thrown>>

(***************************************************************************)
(* Values                                                                  *)
(***************************************************************************)
\* null / undefined / an attribute or element that is not there
NoValue == "<none>"

\* JavaScript's a || b on strings: a unless a is falsy (undefined, null, '')
Falsy(v) == v = NoValue \/ v = ""

Or(a, b) == IF Falsy(a) THEN b ELSE a

Has(e) == e \in present

(***************************************************************************)
(* Theme toggle                                                            *)
(***************************************************************************)
\* The values localStorage may hold under THEME_KEY when the page is opened:
\* nothing, the two the script writes, and a string some other code left there.
StoredValues == {NoValue, "light", "dark", "sepia"}

\* faulty variant: the class is never removed
ApplyThemeNoRemove(theme, dark, aria) ==
    IF theme = "dark"
    THEN [dark |-> TRUE, aria |-> IF Has("themeToggle") THEN "true" ELSE aria]
    ELSE [dark |-> dark, aria |-> IF Has("themeToggle") THEN "false" ELSE aria]

\* faulty variant: aria-pressed is only ever set to 'true'
ApplyThemeAriaStuck(theme, dark, aria) ==
    IF theme = "dark"
    THEN [dark |-> TRUE, aria |-> IF Has("themeToggle") THEN "true" ELSE aria]
    ELSE [dark |-> FALSE, aria |-> aria]

\* applyTheme(theme) on a root whose class is dark and a toggle whose
\* aria-pressed is aria: the two afterwards
ApplyTheme(theme, dark, aria) ==
    IF theme = "dark"
    THEN [dark |-> TRUE, aria |-> IF Has("themeToggle") THEN "true" ELSE aria]
    ELSE [dark |-> FALSE, aria |-> IF Has("themeToggle") THEN "false" ELSE aria]

\* const saved = localStorage.getItem(THEME_KEY) || 'light'
Saved(st) == Or(st, "light")

\* next in the toggle's click handler, from the class on the root
NextTheme(dark) ==
    LET cur == IF dark THEN "dark" ELSE "light"
    IN  IF cur = "dark" THEN "light" ELSE "dark"

PushLog(log, snap) ==
    IF Len(log) = 2 THEN <<log[2], snap>> ELSE Append(log, snap)

\* faulty variant: the theme left is stored, not the theme entered
ThemeToggleClickStoresCur ==
    /\ Has("themeToggle")
    /\ LET next == NextTheme(darkTheme)
           res  == ApplyTheme(next, darkTheme, ariaPressed)
       IN  /\ darkTheme' = res.dark
           /\ ariaPressed' = res.aria
           /\ stored' = IF darkTheme THEN "dark" ELSE "light"
    /\ storedByScript' = TRUE
    /\ themeLog' = PushLog(themeLog, <<stored, darkTheme>>)
    /\ UNCHANGED <<docVars, modalVars, navVars, formVars, thrown>>

\* click on #theme-toggle
ThemeToggleClick ==
    /\ Has("themeToggle")
    /\ LET next == NextTheme(darkTheme)
           res  == ApplyTheme(next, darkTheme, ariaPressed)
       IN  /\ darkTheme' = res.dark
           /\ ariaPressed' = res.aria
           /\ stored' = next
    /\ storedByScript' = TRUE
    /\ themeLog' = PushLog(themeLog, <<stored, darkTheme>>)
    /\ UNCHANGED <<docVars, modalVars, navVars, formVars, thrown>>

(***************************************************************************)
(* Project cards and the modal                                             *)
(***************************************************************************)
\* The .project-card elements of a document that has any: what each carries.
\* dataTitle / dataDesc are the data attributes, h3 / p the text of the card's
\* first h3 / p, img the src of its first img; NoValue where there is none.
Cards ==
    << [dataTitle |-> "Shop", h3 |-> "Shop app", dataDesc |-> "A store", p |-> "Store text",
        img |-> "shop.png"],
       [dataTitle |-> NoValue, h3 |-> "Blog", dataDesc |-> "", p |-> "Blog text",
        img |-> NoValue],
       [dataTitle |-> "", h3 |-> NoValue, dataDesc |-> NoValue, p |-> NoValue,
        img |-> "bare.png"] >>

CardIds == IF Has("card") THEN DOMAIN Cards ELSE {}

\* faulty variant: the card's h3 is not consulted
CardTitleNoHeading(c) == Or(Cards[c].dataTitle, "Project")

CardTitle(c) == Or(Or(Cards[c].dataTitle, Cards[c].h3), "Project")

CardDesc(c) == Or(Or(Cards[c].dataDesc, Cards[c].p), "")

CardImg(c) == Or(Cards[c].img, "")

\* click on the c-th .project-card
CardClick(c) ==
    /\ c \in CardIds
    /\ IF Has("modal")
       THEN /\ modalOpen' = TRUE
            /\ modalTitleText' = IF Has("modalTitle") THEN CardTitle(c) ELSE modalTitleText
            /\ modalBodyText' = IF Has("modalBody") THEN CardDesc(c) ELSE modalBodyText
            /\ modalImgSrc' = IF Has("modalImage") THEN CardImg(c) ELSE modalImgSrc
            /\ modalImgAlt' = IF Has("modalImage") THEN CardTitle(c) ELSE modalImgAlt
            /\ bodyOverflow' = "hidden"
       ELSE UNCHANGED <<modalOpen, modalTitleText, modalBodyText, modalImgSrc,
                        modalImgAlt, bodyOverflow>>
    /\ UNCHANGED <<docVars, themeVars, navVars, formVars, thrown>>

\* what the listeners that close the modal do
\* faulty variant: the 'open' class is not removed
CloseModalKeepOpen ==
    /\ modalOpen' = modalOpen
    /\ bodyOverflow' = ""

\* faulty variant: the body's overflow is not restored
CloseModalKeepsLock ==
    /\ modalOpen' = FALSE
    /\ bodyOverflow' = bodyOverflow

CloseModal ==
    /\ modalOpen' = FALSE
    /\ bodyOverflow' = ""

\* click on '#project-modal .modal-close'; the click bubbles to the modal's
\* own listener with e.target the button, which does nothing
ModalCloseClick ==
    /\ Has("modalClose")
    /\ CloseModal
    /\ UNCHANGED <<modalTitleText, modalBodyText, modalImgSrc, modalImgAlt>>
    /\ UNCHANGED <<docVars, themeVars, navVars, formVars, thrown>>

\* where a click that reaches the modal's listener may land
ModalTargets == {"backdrop", "content"}

\* click inside #project-modal: on the modal element itself (the backdrop), or
\* on something in its content other than the close button
ModalClick(target) ==
    /\ Has("modal")
    /\ IF target = "backdrop"
       THEN CloseModal
       ELSE UNCHANGED <<modalOpen, bodyOverflow>>
    /\ UNCHANGED <<modalTitleText, modalBodyText, modalImgSrc, modalImgAlt>>
    /\ UNCHANGED <<docVars, themeVars, navVars, formVars, thrown>>

\* the keys of the keydown events delivered
Keys == {"Escape", "Enter"}

\* keydown on the document
KeyDown(key) ==
    /\ IF key = "Escape" /\ Has("modal") /\ modalOpen
       THEN CloseModal
       ELSE UNCHANGED <<modalOpen, bodyOverflow>>
    /\ UNCHANGED <<modalTitleText, modalBodyText, modalImgSrc, modalImgAlt>>
    /\ UNCHANGED <<docVars, themeVars, navVars, formVars, thrown>>

(***************************************************************************)
(* Navigation: toggle, links, scroll highlighting, back-to-top             *)
(***************************************************************************)
\* window.scrollY + 120 in onScrollHighlight
HeaderOffset == 120

\* window.scrollY > 400 in the back-to-top scroll listener
BackTopThreshold == 400

\* The section layouts of the documents checked: consecutive sections, and
\* sections that overlap with one of them (the second) nested in the first.
Layouts ==
    { << [id |-> "home", top |-> 0, height |-> 600],
         [id |-> "about", top |-> 600, height |-> 600],
         [id |-> "contact", top |-> 1200, height |-> 600] >>,
      << [id |-> "home", top |-> 0, height |-> 1200],
         [id |-> "about", top |-> 500, height |-> 400],
         [id |-> "contact", top |-> 1000, height |-> 800] >>,
      << >> }

\* The nav link lists of the documents checked: one link per section; a list
\* with no link for 'about', a bare '#', a link to another page, a link to an
\* id no element has and a second link to 'home'; no links.
LinkLists ==
    { << "#home", "#about", "#contact" >>,
      << "#home", "#", "cv.html", "#missing", "#home" >>,
      << >> }

\* The offsets the user scrolls to.
ScrollOffsets == {0, 400, 401, 480, 1080, 2000}

\* href.startsWith('#')
StartsWithHash(href) == Len(href) >= 1 /\ SubSeq(href, 1, 1) = "#"

\* qs(`nav ul li a[href="#${id}"]`): the first such link's index, 0 for null
LinkFor(id) ==
    LET hits == {i \in DOMAIN links : links[i] = "#" \o id}
    IN  IF hits = {} THEN 0 ELSE CHOOSE i \in hits : \A j \in hits : i <= j

\* faulty variant: the href is looked up without being a selector for an id
TargetOfNothing(href) == 0

\* qs(href) for an href '#<id>': the first section with that id, 0 for null
\* (the sections are the only elements with an id the links refer to)
TargetOf(href) ==
    LET hits == {i \in DOMAIN sections : "#" \o sections[i].id = href}
    IN  IF hits = {} THEN 0 ELSE CHOOSE i \in hits : \A j \in hits : i <= j

\* scrollPos >= top && scrollPos < bottom
InSection(sec, pos) == pos >= sec.top /\ pos < sec.top + sec.height

RECURSIVE HighlightFromKeep(_, _, _)
\* faulty variant: 'active' is not removed from the other links
HighlightFromKeep(i, act, pos) ==
    IF i > Len(sections) THEN act
    ELSE LET link == LinkFor(sections[i].id)
             now  == IF InSection(sections[i], pos)
                     THEN (IF link # 0 THEN act \cup {link} ELSE act)
                     ELSE act
         IN  HighlightFromKeep(i + 1, now, pos)

RECURSIVE HighlightFrom(_, _, _)
\* the for loop of onScrollHighlight from the i-th section on: the active links
HighlightFrom(i, act, pos) ==
    IF i > Len(sections) THEN act
    ELSE LET link == LinkFor(sections[i].id)
             now  == IF InSection(sections[i], pos)
                     THEN (IF link # 0 THEN {link} ELSE {})
                     ELSE act
         IN  HighlightFrom(i + 1, now, pos)

\* onScrollHighlight(): the active links afterwards
OnScrollHighlight == HighlightFrom(1, active, scrollY + HeaderOffset)

\* faulty variant: the control shows at the threshold itself
BackTopShownAtThreshold(y) == y >= BackTopThreshold

\* window.scrollY > 400
BackTopShown(y) == y > BackTopThreshold

\* the user scrolls the page; the scroll event follows
UserScroll(y) ==
    /\ y # scrollY
    /\ scrollY' = y
    /\ scrollPending' = TRUE
    /\ UNCHANGED <<navOpen, ariaExpanded, active, loaded, backTopVisible, urlHash,
                   defaultKept>>
    /\ UNCHANGED <<docVars, themeVars, modalVars, formVars, thrown>>

\* scroll on the window: onScrollHighlight, then the back-to-top listener
ScrollEvent ==
    /\ scrollPending
    /\ scrollPending' = FALSE
    /\ active' = OnScrollHighlight
    /\ backTopVisible' = IF Has("backTop") THEN BackTopShown(scrollY) ELSE backTopVisible
    /\ UNCHANGED <<navOpen, ariaExpanded, scrollY, loaded, urlHash, defaultKept>>
    /\ UNCHANGED <<docVars, themeVars, modalVars, formVars, thrown>>

\* load on the window: onScrollHighlight
LoadEvent ==
    /\ ~loaded
    /\ loaded' = TRUE
    /\ active' = OnScrollHighlight
    /\ UNCHANGED <<navOpen, ariaExpanded, scrollY, scrollPending, backTopVisible, urlHash,
                   defaultKept>>
    /\ UNCHANGED <<docVars, themeVars, modalVars, formVars, thrown>>

\* click on #back-to-top: window.scrollTo({ top: 0 })
BackTopClick ==
    /\ Has("backTop")
    /\ scrollY' = 0
    /\ scrollPending' = (scrollPending \/ scrollY # 0)
    /\ UNCHANGED <<navOpen, ariaExpanded, active, loaded, backTopVisible, urlHash,
                   defaultKept>>
    /\ UNCHANGED <<docVars, themeVars, modalVars, formVars, thrown>>

\* String(navUL.classList.contains('open')), as setAttribute stores it
BoolAttr(b) == IF b THEN "true" ELSE "false"

\* click on #nav-toggle; navUL is dereferenced unchecked
NavToggleClick ==
    /\ Has("navToggle")
    /\ IF Has("navUL")
       THEN /\ navOpen' = ~navOpen
            /\ ariaExpanded' = BoolAttr(~navOpen)
            /\ UNCHANGED thrown
       ELSE /\ thrown' = TRUE
            /\ UNCHANGED <<navOpen, ariaExpanded>>
    /\ UNCHANGED <<active, scrollY, scrollPending, loaded, backTopVisible, urlHash,
                   defaultKept>>
    /\ UNCHANGED <<docVars, themeVars, modalVars, formVars>>

\* click on the i-th nav link: the listener that closes the mobile nav, then
\* the smooth-scroll listener.  qs('#') is a syntax error and throws, after
\* preventDefault(); a target section is scrolled to the top of the viewport.
LinkClick(i) ==
    /\ i \in DOMAIN links
    /\ navOpen' = FALSE
    /\ LET href == links[i]
       IN  IF ~Falsy(href) /\ StartsWithHash(href)
           THEN /\ defaultKept' = FALSE
                /\ IF href = "#"
                   THEN /\ thrown' = TRUE
                        /\ UNCHANGED <<scrollY, scrollPending, urlHash>>
                   ELSE /\ UNCHANGED thrown
                        /\ IF TargetOf(href) # 0
                           THEN /\ scrollY' = sections[TargetOf(href)].top
                                /\ scrollPending' =
                                     (scrollPending \/ scrollY # sections[TargetOf(href)].top)
                                /\ urlHash' = href
                           ELSE UNCHANGED <<scrollY, scrollPending, urlHash>>
           ELSE /\ defaultKept' = TRUE
                /\ UNCHANGED <<scrollY, scrollPending, urlHash, thrown>>
    /\ UNCHANGED <<ariaExpanded, active, loaded, backTopVisible>>
    /\ UNCHANGED <<docVars, themeVars, modalVars, formVars>>

(***************************************************************************)
(* Contact form                                                            *)
(***************************************************************************)
\* the longest email value typed
MaxEmailLen == 5

\* the characters typed into the email input
EmailChars == {"a", "@", ".", " "}

\* the values typed into the name and message inputs
FieldValues == {"", " ", " a "}

NameMsg == "Please enter your name."

EmailMsg == "Please enter a valid email."

MessageMsg == "Please add a message."

\* the source's message ends with the emoji U+1F60A, written :) here
SuccessMsg == "Message sent successfully! Thank you :)"

\* white space as String.prototype.trim and the regex class \s see it
IsSpace(c) == c \in {" ", "\t", "\n", "\r"}

CharAt(s, i) == SubSeq(s, i, i)

RECURSIVE TrimStart(_)
TrimStart(s) ==
    IF Len(s) > 0 /\ IsSpace(CharAt(s, 1)) THEN TrimStart(SubSeq(s, 2, Len(s))) ELSE s

RECURSIVE TrimEnd(_)
TrimEnd(s) ==
    IF Len(s) > 0 /\ IsSpace(CharAt(s, Len(s))) THEN TrimEnd(SubSeq(s, 1, Len(s) - 1)) ELSE s

\* faulty variant: the value is not trimmed
TrimNone(s) == s

\* String.prototype.trim
Trim(s) == TrimEnd(TrimStart(s))

\* [^\s@]
RegexAtom(c) == ~IsSpace(c) /\ c # "@"

\* One step of the automaton of ^[^\s@]+@[^\s@]+\.[^\s@]+$ on character c.
\* 0 start, 1 in the first run, 2 after '@', 3 in the second run, 4 after the
\* '\.', 5 in the third run (accepting).  A '.' in the second run is both a
\* character of the run and a candidate for the '\.'.
RegexStep(q, c) ==
    CASE q = 0 -> IF RegexAtom(c) THEN {1} ELSE {}
      [] q = 1 -> IF RegexAtom(c) THEN {1} ELSE IF c = "@" THEN {2} ELSE {}
      [] q = 2 -> IF RegexAtom(c) THEN {3} ELSE {}
      [] q = 3 -> IF c = "." THEN {3, 4} ELSE IF RegexAtom(c) THEN {3} ELSE {}
      [] q = 4 -> IF RegexAtom(c) THEN {5} ELSE {}
      [] q = 5 -> IF RegexAtom(c) THEN {5} ELSE {}

RECURSIVE RegexRun(_, _, _)
RegexRun(qs, s, i) ==
    IF i > Len(s) THEN qs
    ELSE RegexRun(UNION {RegexStep(q, CharAt(s, i)) : q \in qs}, s, i + 1)

\* faulty variant: the dot and the run after it are optional
EmailRegexTestNoDot(s) == RegexRun({0}, s, 1) \cap {3, 5} # {}

\* emailRegex.test(s)
EmailRegexTest(s) == 5 \in RegexRun({0}, s, 1)

RECURSIVE Join(_, _)
\* Array.prototype.join
Join(seq, sep) ==
    IF Len(seq) = 0 THEN ""
    ELSE IF Len(seq) = 1 THEN seq[1]
    ELSE seq[1] \o sep \o Join(Tail(seq), sep)

\* faulty variant: the email check comes last
ErrorsOfEmailLast(name, email, message) ==
    (IF name = "" THEN <<NameMsg>> ELSE <<>>)
    \o (IF message = "" THEN <<MessageMsg>> ELSE <<>>)
    \o (IF email = "" \/ ~EmailRegexTest(email) THEN <<EmailMsg>> ELSE <<>>)

\* the errors array of the submit listener, from the trimmed values
ErrorsOf(name, email, message) ==
    (IF name = "" THEN <<NameMsg>> ELSE <<>>)
    \o (IF email = "" \/ ~EmailRegexTest(email) THEN <<EmailMsg>> ELSE <<>>)
    \o (IF message = "" THEN <<MessageMsg>> ELSE <<>>)

\* no submit event since the last edit (or the page load)
NoSubmit == [at |-> FALSE, name |-> "", email |-> "", message |-> ""]

\* the user edits the form's name input
TypeName(v) ==
    /\ Has("contactForm") /\ Has("name")
    /\ v # nameVal
    /\ nameVal' = v
    /\ UNCHANGED <<emailVal, messageVal, fbText, fbClasses, alerts, formReset>>
    /\ submitted' = NoSubmit
    /\ UNCHANGED <<docVars, themeVars, modalVars, navVars, thrown>>

\* the user types a character at the end of the form's email input
TypeEmail(c) ==
    /\ Has("contactForm") /\ Has("email")
    /\ Len(emailVal) < MaxEmailLen
    /\ emailVal' = emailVal \o c
    /\ UNCHANGED <<nameVal, messageVal, fbText, fbClasses, alerts, formReset>>
    /\ submitted' = NoSubmit
    /\ UNCHANGED <<docVars, themeVars, modalVars, navVars, thrown>>

\* the user empties the form's email input
ClearEmail ==
    /\ Has("contactForm") /\ Has("email")
    /\ emailVal # ""
    /\ emailVal' = ""
    /\ UNCHANGED <<nameVal, messageVal, fbText, fbClasses, alerts, formReset>>
    /\ submitted' = NoSubmit
    /\ UNCHANGED <<docVars, themeVars, modalVars, navVars, thrown>>

\* the user edits the form's message input
TypeMessage(v) ==
    /\ Has("contactForm") /\ Has("message")
    /\ v # messageVal
    /\ messageVal' = v
    /\ UNCHANGED <<nameVal, emailVal, fbText, fbClasses, alerts, formReset>>
    /\ submitted' = NoSubmit
    /\ UNCHANGED <<docVars, themeVars, modalVars, navVars, thrown>>

\* contactForm.reset(): the inputs go back to their default value, which is
\* empty for the inputs of a contact form
ResetForm ==
    /\ nameVal' = ""
    /\ emailVal' = ""
    /\ messageVal' = ""
    /\ formReset' = TRUE

\* faulty variant: the form is reset before the return
KeepFormResets ==
    /\ nameVal' = ""
    /\ emailVal' = ""
    /\ messageVal' = ""
    /\ formReset' = TRUE

\* the return after the errors are shown: reset() is not reached
KeepForm ==
    /\ formReset' = FALSE
    /\ UNCHANGED <<nameVal, emailVal, messageVal>>

\* faulty variant: no alert when the element is missing
ShowNoFallback(text, alertText, add, remove) ==
    IF Has("feedback")
    THEN /\ fbText' = text
         /\ fbClasses' = (fbClasses \ {remove}) \cup {add}
         /\ alerts' = <<>>
    ELSE /\ alerts' = <<>>
         /\ UNCHANGED <<fbText, fbClasses>>

\* faulty variant: the class of the other outcome is not removed
ShowKeepsClass(text, alertText, add, remove) ==
    IF Has("feedback")
    THEN /\ fbText' = text
         /\ fbClasses' = fbClasses \cup {add}
         /\ alerts' = <<>>
    ELSE /\ alerts' = <<alertText>>
         /\ UNCHANGED <<fbText, fbClasses>>

\* the outcome goes to #form-feedback (textContent, one class removed and one
\* added), or to alert() when the element is missing
Show(text, alertText, add, remove) ==
    IF Has("feedback")
    THEN /\ fbText' = text
         /\ fbClasses' = (fbClasses \ {remove}) \cup {add}
         /\ alerts' = <<>>
    ELSE /\ alerts' = <<alertText>>
         /\ UNCHANGED <<fbText, fbClasses>>

\* submit on #contact-form.  e.preventDefault() comes first, so the browser
\* never submits the form; qs('#name').value and the two reads after it are
\* unchecked and throw when the input is missing.
Submit ==
    /\ Has("contactForm")
    /\ submitted' = [at |-> TRUE, name |-> nameVal, email |-> emailVal,
                     message |-> messageVal]
    /\ IF ~(Has("name") /\ Has("email") /\ Has("message"))
       THEN /\ thrown' = TRUE
            /\ alerts' = <<>>
            /\ formReset' = FALSE
            /\ UNCHANGED <<nameVal, emailVal, messageVal, fbText, fbClasses>>
       ELSE LET errors == ErrorsOf(Trim(nameVal), Trim(emailVal), Trim(messageVal))
            IN  /\ UNCHANGED thrown
                /\ IF Len(errors) > 0
                   THEN /\ Show(Join(errors, " "), Join(errors, "\n"), "error", "success")
                        /\ KeepForm
                   ELSE /\ Show(SuccessMsg, SuccessMsg, "success", "error")
                        /\ ResetForm
    /\ UNCHANGED <<docVars, themeVars, modalVars, navVars>>

(***************************************************************************)
(* Page load                                                               *)
(***************************************************************************)
\* The elements the script looks up.  The modal's parts are found through
\* '#project-modal <part>', so only inside a modal.
Elements ==
    {"navToggle", "navUL", "contactForm", "name", "email", "message", "feedback",
     "card", "modal", "modalTitle", "modalBody", "modalImage", "modalClose",
     "themeToggle", "backTop"}

ModalParts == {"modalTitle", "modalBody", "modalImage", "modalClose"}

WellFormed(elems) ==
    /\ elems \subseteq Elements
    /\ (elems \cap ModalParts # {}) => "modal" \in elems

\* The DOM and the window as the markup gives them, before the script runs:
\* nothing open, nothing typed, no class set by the script.
MarkupState ==
    /\ modalOpen = FALSE
    /\ bodyOverflow = ""
    /\ modalTitleText = ""
    /\ modalBodyText = ""
    /\ modalImgSrc = ""
    /\ modalImgAlt = ""
    /\ navOpen = FALSE
    /\ ariaExpanded = IF Has("navToggle") THEN "false" ELSE NoValue
    /\ active = initActive
    /\ scrollY = 0
    /\ scrollPending = FALSE
    /\ loaded = FALSE
    /\ backTopVisible = FALSE
    /\ urlHash = ""
    /\ defaultKept = FALSE
    /\ nameVal = ""
    /\ emailVal = ""
    /\ messageVal = ""
    /\ fbText = ""
    /\ fbClasses = {}
    /\ alerts = <<>>
    /\ formReset = FALSE
    /\ submitted = NoSubmit
    /\ thrown = FALSE

\* The script's top level: the listeners are registered and the saved theme
\* is applied.
ScriptRun ==
    LET res == ApplyTheme(Saved(stored), FALSE, NoValue)
    IN  /\ darkTheme = res.dark
        /\ ariaPressed = res.aria

\* The state once the script has run in a document with the elements elems,
\* the nav links ls and the sections secs.
Loaded(elems, ls, secs) ==
    /\ present \in {e \in SUBSET elems : WellFormed(e)}
    /\ sections \in secs
    /\ links \in (IF Has("navUL") THEN ls ELSE {<< >>})
    /\ initActive \in {{}} \cup {{i} : i \in DOMAIN links}
    /\ stored \in StoredValues
    /\ storedByScript = FALSE
    /\ themeLog = << >>
    /\ MarkupState
    /\ ScriptRun

\* The page is loaded again: a fresh DOM from the same markup, the URL and
\* localStorage kept, and the script run anew.
Reload ==
    /\ modalOpen' = FALSE
    /\ bodyOverflow' = ""
    /\ modalTitleText' = ""
    /\ modalBodyText' = ""
    /\ modalImgSrc' = ""
    /\ modalImgAlt' = ""
    /\ navOpen' = FALSE
    /\ ariaExpanded' = IF Has("navToggle") THEN "false" ELSE NoValue
    /\ active' = initActive
    /\ scrollY' = 0
    /\ scrollPending' = FALSE
    /\ loaded' = FALSE
    /\ backTopVisible' = FALSE
    /\ defaultKept' = FALSE
    /\ nameVal' = ""
    /\ emailVal' = ""
    /\ messageVal' = ""
    /\ fbText' = ""
    /\ fbClasses' = {}
    /\ alerts' = <<>>
    /\ formReset' = FALSE
    /\ submitted' = NoSubmit
    /\ thrown' = FALSE
    /\ LET res == ApplyTheme(Saved(stored), FALSE, NoValue)
       IN  /\ darkTheme' = res.dark
           /\ ariaPressed' = res.aria
    /\ themeLog' = << >>
    /\ UNCHANGED <<docVars, stored, storedByScript, urlHash>>

(***************************************************************************)
(* Specifications                                                          *)
(***************************************************************************)
\* Theme toggle and project modal, in documents with any of their elements.
Init ==
    Loaded({"themeToggle", "card", "modal"} \cup ModalParts, {<< >>}, {<< >>})

Next ==
    \/ ThemeToggleClick
    \/ Reload
    \/ \E c \in DOMAIN Cards : CardClick(c)
    \/ ModalCloseClick
    \/ \E t \in ModalTargets : ModalClick(t)
    \/ \E k \in Keys : KeyDown(k)

Spec == Init /\ [][Next]_vars

\* Navigation and scrolling, in documents with any of their elements.
InitNav ==
    /\ Loaded({"navToggle", "navUL", "backTop"}, LinkLists, Layouts)
    /\ stored = NoValue

NextNav ==
    \/ \E y \in ScrollOffsets : UserScroll(y)
    \/ ScrollEvent
    \/ LoadEvent
    \/ BackTopClick
    \/ NavToggleClick
    \/ \E i \in DOMAIN links : LinkClick(i)

SpecNav == InitNav /\ [][NextNav]_vars

\* The contact form, in documents with any of its elements.
InitForm ==
    /\ Loaded({"contactForm", "name", "email", "message", "feedback"}, {<< >>}, {<< >>})
    /\ stored = NoValue

NextForm ==
    \/ \E v \in FieldValues : TypeName(v)
    \/ \E c \in EmailChars : TypeEmail(c)
    \/ ClearEmail
    \/ \E v \in FieldValues : TypeMessage(v)
    \/ Submit

SpecForm == InitForm /\ [][NextForm]_vars

(***************************************************************************)
(* Properties: theme                                                       *)
(***************************************************************************)
\* C1 as stated: after two clicks on the theme toggle the value stored under
\* 'portfolio-theme' equals the value stored before the two clicks (no value,
\* "light" or "dark"), and the root's 'dark-theme' class is as it was.
C1_TwoClicksRestoreStored ==
    (Len(themeLog) = 2 /\ themeLog[1][1] \in {NoValue, "light", "dark"})
        => /\ stored = themeLog[1][1]
           /\ darkTheme = themeLog[1][2]

\* C1 amended: after two clicks on the theme toggle the root's 'dark-theme'
\* class is as it was before them; the stored value equals the value stored
\* before them when that was "light" or "dark", and is "light" when no value
\* was stored.
C1_TwoClicksRestoreTheme ==
    (Len(themeLog) = 2 /\ themeLog[1][1] \in {NoValue, "light", "dark"})
        => /\ darkTheme = themeLog[1][2]
           /\ themeLog[1][1] \in {"light", "dark"} => stored = themeLog[1][1]
           /\ themeLog[1][1] = NoValue => stored = "light"

\* two clicks from a stored "dark" have led back to "dark"
C1_Witness ==
    /\ Len(themeLog) = 2
    /\ themeLog[1] = <<"dark", TRUE>>
    /\ stored = "dark"
    /\ darkTheme

\* C2: a reload preserves the theme: the root carries 'dark-theme' after the
\* reload if and only if it carried it just before, whatever clicks and
\* reloads came earlier.
C2_ReloadKeepsTheme == [][Reload => (darkTheme' = darkTheme)]_vars

\* the page was reloaded after a toggle click and is dark
C2_Witness ==
    /\ storedByScript
    /\ themeLog = << >>
    /\ stored = "dark"
    /\ darkTheme

(***************************************************************************)
(* Properties: back-to-top                                                 *)
(***************************************************************************)
\* C8: once the scroll event of the current scroll position is delivered,
\* the back-to-top control carries 'visible' if and only if the offset is
\* greater than 400 (400 itself hides it), whatever the earlier offsets were.
C8_BackTopVisibleIffPast400 ==
    (Has("backTop") /\ ~scrollPending) => (backTopVisible <=> scrollY > 400)

\* the scroll event at offset 401 has shown the control
C8_Witness ==
    /\ Has("backTop")
    /\ ~scrollPending
    /\ scrollY = 401
    /\ backTopVisible

(***************************************************************************)
(* Properties: modal                                                       *)
(***************************************************************************)
\* C9: when the modal is open, a click on the close button, a click on the
\* backdrop itself and a keydown of Escape each close it; a click inside the
\* content and a keydown of another key leave it open.
C9_CloseEvents ==
    [][/\ (modalOpen /\ (\/ ModalCloseClick
                         \/ ModalClick("backdrop")
                         \/ KeyDown("Escape"))) => ~modalOpen'
       /\ (modalOpen /\ (\/ ModalClick("content")
                         \/ \E k \in Keys \ {"Escape"} : KeyDown(k))) => modalOpen'
      ]_vars

\* the modal was opened by the first card and has been closed again
C9_Witness ==
    /\ ~modalOpen
    /\ modalImgAlt = "Shop"
    /\ bodyOverflow = ""

(***************************************************************************)
(* Properties: missing elements                                            *)
(***************************************************************************)
\* C10: whatever expected elements the document lacks, no event delivered to
\* the elements that are present makes a handler throw.
C10_NeverThrows == ~thrown

(***************************************************************************)
(* Properties: contact form                                                *)
(*                                                                         *)
(* The claims about a submission speak of the values of the three inputs   *)
(* and are stated for documents that hold them; a submission in a document *)
(* that lacks one throws before any check (see C10).  They are stated on   *)
(* the state a submit event leaves, where submitted holds the values the   *)
(* inputs had when it arrived.  What a value is after trimming and what    *)
(* shape an email has are restated here from the claims' words, apart from *)
(* Trim and the regex automaton.                                           *)
(***************************************************************************)
\* a submit event has just been handled in a document with the three inputs
AfterSubmit == submitted.at /\ Has("name") /\ Has("email") /\ Has("message")

\* s without the white space before its first and after its last other character
Core(s) ==
    LET idx == {i \in 1..Len(s) : ~IsSpace(CharAt(s, i))}
    IN  IF idx = {} THEN ""
        ELSE SubSeq(s, CHOOSE i \in idx : \A j \in idx : i <= j,
                       CHOOSE i \in idx : \A j \in idx : i >= j)

\* every character of s from position a to position b is neither white space nor '@'
PlainRun(s, a, b) == \A i \in a..b : ~IsSpace(CharAt(s, i)) /\ CharAt(s, i) # "@"

\* <non-empty plain run> '@' <non-empty plain run> '.' <non-empty plain run>
HasEmailShape(s) ==
    \E at \in 2..Len(s) : \E dot \in (at + 2)..(Len(s) - 1) :
        /\ CharAt(s, at) = "@"
        /\ CharAt(s, dot) = "."
        /\ PlainRun(s, 1, at - 1)
        /\ PlainRun(s, at + 1, dot - 1)
        /\ PlainRun(s, dot + 1, Len(s))

NameFails == Core(submitted.name) = ""

EmailFails == Core(submitted.email) = "" \/ ~HasEmailShape(Core(submitted.email))

MessageFails == Core(submitted.message) = ""

AllPass == ~NameFails /\ ~EmailFails /\ ~MessageFails

\* t occurs in s
Contains(s, t) == \E i \in 1..(Len(s) - Len(t) + 1) : SubSeq(s, i, i + Len(t) - 1) = t

\* C3: a submission whose name is empty after trimming is rejected with
\* "Please enter your name.", whatever the email and message hold: the
\* feedback element's text contains the message, it has class 'error' and
\* not 'success', and the success message is shown nowhere.
C3_EmptyNameRejected ==
    (AfterSubmit /\ NameFails)
        => /\ Has("feedback")
               => /\ Contains(fbText, "Please enter your name.")
                  /\ "error" \in fbClasses
                  /\ "success" \notin fbClasses
                  /\ ~Contains(fbText, "Message sent successfully!")
           /\ \A i \in DOMAIN alerts : ~Contains(alerts[i], "Message sent successfully!")

\* a submission with a blank name, a well-formed email and a message was rejected
C3_Witness ==
    /\ AfterSubmit
    /\ Has("feedback")
    /\ submitted.name = " "
    /\ ~EmailFails
    /\ ~MessageFails
    /\ fbText = "Please enter your name."
    /\ fbClasses = {"error"}

\* C4: a submission whose trimmed email is empty or lacks the shape
\* run '@' run '.' run (runs non-empty, free of white space and '@') shows
\* "Please enter a valid email." and never the success message, whatever
\* the name and message hold; an email of that shape never shows it.
C4_EmailValidation ==
    AfterSubmit
        => LET out == IF Has("feedback") THEN fbText ELSE alerts[1]
           IN  IF EmailFails
               THEN /\ Contains(out, "Please enter a valid email.")
                    /\ ~Contains(out, "Message sent successfully!")
               ELSE ~Contains(out, "Please enter a valid email.")

\* an email with nothing between its '@' and its '.' was rejected, and
\* nothing else was wrong
C4_Witness ==
    /\ AfterSubmit
    /\ Has("feedback")
    /\ submitted.email = "a@.a"
    /\ ~NameFails
    /\ ~MessageFails
    /\ fbText = "Please enter a valid email."
    /\ fbClasses = {"error"}

\* C5: a submission that passes every check writes the success message to
\* the feedback element (class 'success', not 'error') and clears the
\* fields; one that fails a check writes an error message (class 'error',
\* not 'success') and leaves the fields as typed.  The form is reset if and
\* only if validation passed.
C5_ResetIffValid ==
    AfterSubmit
        => IF AllPass
           THEN /\ Has("feedback")
                    => /\ fbText = "Message sent successfully! Thank you :)"
                       /\ "success" \in fbClasses
                       /\ "error" \notin fbClasses
                /\ <<nameVal, emailVal, messageVal>> = <<"", "", "">>
                /\ formReset
           ELSE /\ Has("feedback")
                    => /\ \/ Contains(fbText, "Please enter your name.")
                          \/ Contains(fbText, "Please enter a valid email.")
                          \/ Contains(fbText, "Please add a message.")
                       /\ ~Contains(fbText, "Message sent successfully!")
                       /\ "error" \in fbClasses
                       /\ "success" \notin fbClasses
                /\ <<nameVal, emailVal, messageVal>>
                     = <<submitted.name, submitted.email, submitted.message>>
                /\ ~formReset

\* a valid submission, typed with white space around the name, has cleared the form
C5_Witness ==
    /\ AfterSubmit
    /\ Has("feedback")
    /\ submitted.name = " a "
    /\ submitted.email = "a@a.a"
    /\ formReset
    /\ fbText = "Message sent successfully! Thank you :)"
    /\ fbClasses = {"success"}
    /\ <<nameVal, emailVal, messageVal>> = <<"", "", "">>

\* the text C6 expects for the failing checks n (name), e (email), m (message)
ExpectedErrorText(n, e, m) ==
    CASE n /\ e /\ m ->
           "Please enter your name. Please enter a valid email. Please add a message."
      [] n /\ e /\ ~m -> "Please enter your name. Please enter a valid email."
      [] n /\ ~e /\ m -> "Please enter your name. Please add a message."
      [] ~n /\ e /\ m -> "Please enter a valid email. Please add a message."
      [] n /\ ~e /\ ~m -> "Please enter your name."
      [] ~n /\ e /\ ~m -> "Please enter a valid email."
      [] ~n /\ ~e /\ m -> "Please add a message."

\* C6: on a failed submission the feedback element's text is the messages
\* of exactly the failing checks, in the order name, email, message, joined
\* by one space, for each of the 7 combinations of failing fields.
C6_ErrorTextInOrder ==
    (AfterSubmit /\ Has("feedback") /\ ~AllPass)
        => fbText = ExpectedErrorText(NameFails, EmailFails, MessageFails)

\* the name and the message checks failed and the email check passed
C6_Witness ==
    /\ AfterSubmit
    /\ Has("feedback")
    /\ NameFails /\ ~EmailFails /\ MessageFails
    /\ fbText = "Please enter your name. Please add a message."

\* C7: without a #form-feedback element every submission raises exactly one
\* alert carrying the outcome (the messages of the failing checks, or the
\* success message) and the form is still reset on success; with the
\* element no submission raises an alert.
C7_AlertFallback ==
    AfterSubmit
        => IF Has("feedback")
           THEN alerts = << >>
           ELSE /\ Len(alerts) = 1
                /\ IF AllPass
                   THEN /\ alerts[1] = "Message sent successfully! Thank you :)"
                        /\ formReset
                        /\ <<nameVal, emailVal, messageVal>> = <<"", "", "">>
                   ELSE /\ Contains(alerts[1], "Please enter your name.") <=> NameFails
                        /\ Contains(alerts[1], "Please enter a valid email.") <=> EmailFails
                        /\ Contains(alerts[1], "Please add a message.") <=> MessageFails
                        /\ ~Contains(alerts[1], "Message sent successfully!")

\* a valid submission in a document without the feedback element
C7_Witness ==
    /\ AfterSubmit
    /\ ~Has("feedback")
    /\ AllPass
    /\ alerts = << "Message sent successfully! Thank you :)" >>
    /\ formReset

(***************************************************************************)
(* Properties: scroll highlighting and navigation                          *)
(***************************************************************************)
\* the offset onScrollHighlight compares with the sections
HighlightPos == scrollY + 120

\* the i-th section contains the offset
Holds(i) ==
    /\ HighlightPos >= sections[i].top
    /\ HighlightPos < sections[i].top + sections[i].height

\* the nav links whose href names the i-th section
LinksOf(i) == {j \in DOMAIN links : links[j] = "#" \o sections[i].id}

\* C11: after each scroll or load event, if scrollY + 120 lies in the range
\* [top, bottom) of a section that has a nav link, then a nav link of a
\* section containing that offset is active, whatever the layout (sections
\* without a link and overlapping sections included).
C11_LinkedSectionHighlighted ==
    [][(ScrollEvent \/ LoadEvent)
         => ((\E i \in DOMAIN sections : Holds(i)' /\ LinksOf(i) # {})
               => \E i \in DOMAIN sections : Holds(i)' /\ LinksOf(i) \cap active' # {})
      ]_vars

\* C13: after any sequence of clicks on the nav toggle and on nav links,
\* aria-expanded of #nav-toggle is true exactly when the nav list is open.
C13_AriaExpandedMatchesOpen ==
    (Has("navToggle") /\ Has("navUL")) => (ariaExpanded = "true" <=> navOpen)

(***************************************************************************)
(* Properties: modal contents, theme state, scroll lock                    *)
(***************************************************************************)
\* a value the card carries: the attribute or element is there and not empty
Given(v) == v # NoValue /\ v # ""

\* the title the modal shows for card c: data-title, else h3 text, else "Project"
ExpectedTitle(c) ==
    IF Given(Cards[c].dataTitle) THEN Cards[c].dataTitle
    ELSE IF Given(Cards[c].h3) THEN Cards[c].h3
    ELSE "Project"

\* the body the modal shows for card c: data-desc, else p text, else ''
ExpectedDesc(c) ==
    IF Given(Cards[c].dataDesc) THEN Cards[c].dataDesc
    ELSE IF Given(Cards[c].p) THEN Cards[c].p
    ELSE ""

\* C12: a click on a project card in a document with the modal opens the modal
\* and sets its title to data-title, else the h3 text, else "Project", its body
\* to data-desc, else the p text, else '', and the image's alt to that title,
\* whether or not the modal was open already; and no other event changes these
\* fields, so they hold the values of the card clicked last.
C12_ModalShowsClickedCard ==
    [][/\ \A c \in DOMAIN Cards :
            (CardClick(c) /\ Has("modal"))
              => /\ modalOpen'
                 /\ Has("modalTitle") => modalTitleText' = ExpectedTitle(c)
                 /\ Has("modalBody") => modalBodyText' = ExpectedDesc(c)
                 /\ Has("modalImage") => modalImgAlt' = ExpectedTitle(c)
       /\ (~(\E c \in DOMAIN Cards : CardClick(c)) /\ ~Reload)
              => UNCHANGED <<modalTitleText, modalBodyText, modalImgAlt>>
      ]_vars

\* the modal shows the second card, whose title comes from its h3 and whose
\* body from its p, in place of what it showed before
C12_Witness ==
    /\ modalOpen
    /\ modalTitleText = "Blog"
    /\ modalBodyText = "Blog text"
    /\ modalImgAlt = "Blog"
    /\ modalImgSrc = ""

\* C14: after any sequence of theme-toggle clicks and reloads, a value this
\* script stored under 'portfolio-theme' is "light" or "dark", the root carries
\* 'dark-theme' iff the stored value is "dark", and the toggle's aria-pressed is
\* 'true' iff 'dark-theme' is present.
C14_ThemeStateConsistent ==
    /\ storedByScript => stored \in {"light", "dark"}
    /\ darkTheme <=> stored = "dark"
    /\ Has("themeToggle") => (ariaPressed = "true" <=> darkTheme)
    /\ Has("themeToggle") => ariaPressed \in {"true", "false"}

\* the toggle has taken the page from dark back to light
C14_Witness ==
    /\ storedByScript
    /\ stored = "light"
    /\ ~darkTheme
    /\ ariaPressed = "false"
    /\ themeLog # << >>
    /\ themeLog[Len(themeLog)] = <<"dark", TRUE>>

\* C15: after any sequence of card clicks, close-button clicks, backdrop clicks
\* and keydown events, the body's overflow is 'hidden' iff the modal is open.
C15_ScrollLockedIffOpen ==
    bodyOverflow = "hidden" <=> modalOpen

\* the modal was opened on the first card and closed again
C15_Witness ==
    /\ Has("modal")
    /\ ~modalOpen
    /\ bodyOverflow = ""
    /\ modalBodyText = "A store"

(***************************************************************************)
(* Properties: one active link, feedback of the latest submission, links   *)
(***************************************************************************)
\* C16: after any sequence of scroll and load events on a document with at most
\* one nav link marked active, at most one nav link is active; and a scroll
\* event whose offset scrollY + 120 lies in no section leaves the active links
\* as they were.
C16_AtMostOneActive ==
    /\ Cardinality(active) <= 1
    /\ [][/\ Cardinality(active') <= 1
          /\ (ScrollEvent /\ ~(\E i \in DOMAIN sections : Holds(i)))
                => active' = active
         ]_vars

\* a link was made active by an event and kept by the scroll event delivered
\* below the last section
C16_Witness ==
    /\ sections # << >>
    /\ scrollY = 2000
    /\ ~scrollPending
    /\ ~(\E i \in DOMAIN sections : Holds(i))
    /\ initActive = {}
    /\ Cardinality(active) = 1

\* C17: the feedback element never carries both 'success' and 'error', and
\* after a submission its class and text are those of that submission alone.
C17_FeedbackOfLatestSubmit ==
    /\ ~({"success", "error"} \subseteq fbClasses)
    /\ (AfterSubmit /\ Has("feedback"))
          => IF AllPass
             THEN fbClasses = {"success"} /\ fbText = SuccessMsg
             ELSE /\ fbClasses = {"error"}
                  /\ fbText = ExpectedErrorText(NameFails, EmailFails, MessageFails)

\* a rejected submission of a form that holds an email typed in full: the
\* element shows the error alone
C17_Witness ==
    /\ AfterSubmit
    /\ Has("feedback")
    /\ ~NameFails
    /\ ~EmailFails
    /\ MessageFails
    /\ fbClasses = {"error"}
    /\ fbText = MessageMsg

\* an element matching the href exists
Matches(href) == {i \in DOMAIN sections : "#" \o sections[i].id = href}

\* C18: a click on a nav link whose href starts with '#' suppresses the default
\* navigation and leaves the nav closed; the page scrolls to the target and the
\* URL hash becomes the href only when an element matches the href, and scroll
\* position and URL stay as they were when none does.  A link whose href does
\* not start with '#' keeps its default navigation.
C18_HashLinkClick ==
    [][\A i \in DOMAIN links :
          LinkClick(i)
            => /\ ~navOpen'
               /\ IF Len(links[i]) > 0 /\ CharAt(links[i], 1) = "#"
                  THEN /\ ~defaultKept'
                       /\ IF Matches(links[i]) # {}
                          THEN /\ \E t \in Matches(links[i]) :
                                     scrollY' = sections[t].top
                               /\ urlHash' = links[i]
                          ELSE /\ scrollY' = scrollY
                               /\ urlHash' = urlHash
                  ELSE /\ defaultKept'
                       /\ scrollY' = scrollY
                       /\ urlHash' = urlHash
      ]_vars

\* the nav was opened from the toggle and a click on the link to #about closed
\* it, scrolled there and put the hash in the URL
C18_Witness ==
    /\ urlHash = "#about"
    /\ scrollY = 600
    /\ ~navOpen
    /\ ariaExpanded = "true"
    /\ ~defaultKept

====
